---- MODULE Spec2Model ----
(***************************************************************************)
(* ramlfications/validate.py: the validation gate (the two decorators),    *)
(* the two rule registries and the rule set, as a state machine.           *)
(*                                                                         *)
(* Python values are tagged records [t |-> <type>, v |-> <payload>]; the   *)
(* tag is compared first, so values of different Python types compare      *)
(* unequal.  A str is a sequence of one-character strings wherever the     *)
(* code looks inside it (regex, substring, startswith, lower, split).      *)
(* A dict is an insertion-ordered sequence of <<key, value>> pairs.        *)
(* Dict keys and attribute values that the code only compares for equality *)
(* are plain strings.                                                      *)
(***************************************************************************)
EXTENDS Integers, Sequences, FiniteSets, TLC

VARIABLES environ, config_validate, raml, prod, raml_file, resources, root, resource, scheme, last

vars == <<environ, config_validate, raml, prod, raml_file, resources, root, resource, scheme, last>>

-----------------------------------------------------------------------------
(* Python values *)

None == [t |-> "None"]

Str(s) == [t |-> "str", v |-> s]

Dict(items) == [t |-> "dict", v |-> items]

List(items) == [t |-> "list", v |-> items]

Bool(b) == [t |-> "bool", v |-> b]

EmptyDict == Dict(<<>>)

\* bool(x): None, "", {}, [] and False are falsy.
Truthy(x) ==
    CASE x.t = "None" -> FALSE
      [] x.t = "bool" -> x.v
      [] OTHER -> Len(x.v) > 0

\* The positions of seq, in order.
Idx(seq) == 1 .. Len(seq)

\* The least element of a non-empty set of integers.
Min(S) == CHOOSE m \in S : \A n \in S : m <= n

\* d.get(k, default) on a dict d: the value of the first (only) pair with key k.
GetOr(d, k, default) ==
    LET hits == {i \in Idx(d.v) : d.v[i][1] = k}
    IN  IF hits = {} THEN default ELSE d.v[Min(hits)][2]

\* d.get(k)
Get(d, k) == GetOr(d, k, None)

\* list(iterkeys(d))
Keys(d) == [i \in Idx(d.v) |-> d.v[i][1]]

\* list(itervalues(d))
Values(d) == [i \in Idx(d.v) |-> d.v[i][2]]

\* x in seq, for a Python list given as a sequence
InSeq(x, seq) == \E i \in Idx(seq) : seq[i] = x

RECURSIVE DictFromPairs(_)
\* dict(pairs): a later pair with a key already present overwrites the value and
\* keeps the key's first position; a new key is appended.
DictFromPairs(pairs) ==
    IF pairs = <<>> THEN <<>>
    ELSE LET front == DictFromPairs(SubSeq(pairs, 1, Len(pairs) - 1))
             p == pairs[Len(pairs)]
             hits == {i \in Idx(front) : front[i][1] = p[1]}
         IN  IF hits = {} THEN Append(front, p)
             ELSE [i \in Idx(front) |-> IF i \in hits THEN p ELSE front[i]]

-----------------------------------------------------------------------------
(* Strings as character sequences *)

\* The str literals of the rules, as characters.
s_application_slash == <<"a", "p", "p", "l", "i", "c", "a", "t", "i", "o", "n", "/">>
s_json == <<"j", "s", "o", "n">>
s_xml == <<"x", "m", "l">>
s_schema == <<"s", "c", "h", "e", "m", "a">>
s_example == <<"e", "x", "a", "m", "p", "l", "e">>
s_version_placeholder == <<"{", "v", "e", "r", "s", "i", "o", "n", "}">>
s_version == <<"v", "e", "r", "s", "i", "o", "n">>
s_x_dash == <<"x", "-">>
s_form_urlencoded == <<"a", "p", "p", "l", "i", "c", "a", "t", "i", "o", "n", "/", "x", "-", "w", "w", "w", "-", "f", "o", "r", "m", "-", "u", "r", "l", "e", "n", "c", "o", "d", "e", "d">>
s_multipart_form_data == <<"m", "u", "l", "t", "i", "p", "a", "r", "t", "/", "f", "o", "r", "m", "-", "d", "a", "t", "a">>
s_OAuth_2_0 == <<"O", "A", "u", "t", "h", " ", "2", ".", "0">>
s_OAuth_1_0 == <<"O", "A", "u", "t", "h", " ", "1", ".", "0">>
s_raml_marker == <<"#", "%", "R", "A", "M", "L">>
s_1 == <<"1">>
s_True == <<"T", "r", "u", "e">>

\* The characters of the strings the configuration and the inputs hold.
Chars ==
    ("application/json" :> <<"a", "p", "p", "l", "i", "c", "a", "t", "i", "o", "n", "/", "j", "s", "o", "n">>)
    @@ ("application/xml" :> <<"a", "p", "p", "l", "i", "c", "a", "t", "i", "o", "n", "/", "x", "m", "l">>)
    @@ ("text/xml" :> <<"t", "e", "x", "t", "/", "x", "m", "l">>)
    @@ ("text/plain" :> <<"t", "e", "x", "t", "/", "p", "l", "a", "i", "n">>)
    @@ ("application/vnd.api+json" :> <<"a", "p", "p", "l", "i", "c", "a", "t", "i", "o", "n", "/", "v", "n", "d", ".", "a", "p", "i", "+", "j", "s", "o", "n">>)
    @@ ("application/hal-json" :> <<"a", "p", "p", "l", "i", "c", "a", "t", "i", "o", "n", "/", "h", "a", "l", "-", "j", "s", "o", "n">>)
    @@ ("HTTP" :> <<"H", "T", "T", "P">>)
    @@ ("HTTPS" :> <<"H", "T", "T", "P", "S">>)
    @@ ("FTP" :> <<"F", "T", "P">>)
    @@ ("Basic Authentication" :> <<"B", "a", "s", "i", "c", " ", "A", "u", "t", "h", "e", "n", "t", "i", "c", "a", "t", "i", "o", "n">>)
    @@ ("Digest Authentication" :> <<"D", "i", "g", "e", "s", "t", " ", "A", "u", "t", "h", "e", "n", "t", "i", "c", "a", "t", "i", "o", "n">>)
    @@ ("x-custom" :> <<"x", "-", "c", "u", "s", "t", "o", "m">>)
    @@ ("apikey" :> <<"a", "p", "i", "k", "e", "y">>)
    @@ ("0.8" :> <<"0", ".", "8">>)
    @@ ("https://a.io" :> <<"h", "t", "t", "p", "s", ":", "/", "/", "a", ".", "i", "o">>)
    @@ ("https://a.io/{version}" :> <<"h", "t", "t", "p", "s", ":", "/", "/", "a", ".", "i", "o", "/", "{", "v", "e", "r", "s", "i", "o", "n", "}">>)
    @@ ("v1" :> <<"v", "1">>)
    @@ ("Version" :> <<"V", "e", "r", "s", "i", "o", "n">>)
    @@ ("id" :> <<"i", "d">>)
    @@ ("API" :> <<"A", "P", "I">>)
    @@ ("title: X" :> <<"t", "i", "t", "l", "e", ":", " ", "X">>)
    @@ ("0" :> <<"0">>)
    @@ ("False" :> <<"F", "a", "l", "s", "e">>)
    @@ ("string" :> <<"s", "t", "r", "i", "n", "g">>)
    @@ ("number" :> <<"n", "u", "m", "b", "e", "r">>)
    @@ ("integer" :> <<"i", "n", "t", "e", "g", "e", "r">>)
    @@ ("date" :> <<"d", "a", "t", "e">>)
    @@ ("boolean" :> <<"b", "o", "o", "l", "e", "a", "n">>)
    @@ ("file" :> <<"f", "i", "l", "e">>)
    @@ ("bogus" :> <<"b", "o", "g", "u", "s">>)
    @@ ("Collection" :> <<"C", "o", "l", "l", "e", "c", "t", "i", "o", "n">>)
    @@ ("Member" :> <<"M", "e", "m", "b", "e", "r">>)
    @@ ("Item" :> <<"I", "t", "e", "m">>)
    @@ ("q" :> <<"q">>)
    @@ ("/users" :> <<"/", "u", "s", "e", "r", "s">>)
    @@ ("oauth_2_0" :> <<"o", "a", "u", "t", "h", "_", "2", "_", "0">>)
    @@ ("basic" :> <<"b", "a", "s", "i", "c">>)
    @@ ("#%RAML 0.8" :> <<"#", "%", "R", "A", "M", "L", " ", "0", ".", "8">>)
    @@ ("#%RAML 1.0" :> <<"#", "%", "R", "A", "M", "L", " ", "1", ".", "0">>)
    @@ ("#%YAML 0.8" :> <<"#", "%", "Y", "A", "M", "L", " ", "0", ".", "8">>)
    @@ (" " :> <<" ">>)
    @@ ("true" :> <<"t", "r", "u", "e">>)

UpperLetters == <<"A", "B", "C", "D", "E", "F", "G", "H", "I", "J", "K", "L", "M", "N", "O", "P", "Q", "R", "S", "T", "U", "V", "W", "X", "Y", "Z">>

LowerLetters == <<"a", "b", "c", "d", "e", "f", "g", "h", "i", "j", "k", "l", "m", "n", "o", "p", "q", "r", "s", "t", "u", "v", "w", "x", "y", "z">>

\* str.lower(), on one character and on a string
LowerChar(c) ==
    LET hits == {i \in Idx(UpperLetters) : UpperLetters[i] = c}
    IN  IF hits = {} THEN c ELSE LowerLetters[Min(hits)]

Lower(s) == [i \in Idx(s) |-> LowerChar(s[i])]

\* sub occurs in s at position i (1-based)
OccursAt(sub, s, i) ==
    /\ i >= 1
    /\ i + Len(sub) - 1 <= Len(s)
    /\ \A j \in Idx(sub) : s[i + j - 1] = sub[j]

\* sub in s
Contains(sub, s) == \E i \in 1 .. (Len(s) + 1) : OccursAt(sub, s, i)

\* s.startswith(prefix)
StartsWith(s, prefix) == OccursAt(prefix, s, 1)

Whitespace == {" ", "\t"}

RECURSIVE Split(_)
\* s.split(): the maximal runs of non-whitespace characters, in order
Split(s) ==
    IF s = <<>> THEN <<>>
    ELSE IF s[1] \in Whitespace THEN Split(Tail(s))
    ELSE LET stops == {i \in Idx(s) : s[i] \in Whitespace}
             n == IF stops = {} THEN Len(s) ELSE Min(stops) - 1
         IN  <<SubSeq(s, 1, n)>> \o Split(SubSeq(s, n + 1, Len(s)))

-----------------------------------------------------------------------------
(* The configuration facade: config.get(section, key) *)

\* config.get('defaults', 'raml_versions')
config_raml_versions == <<Chars["0.8"]>>

\* config.get('defaults', 'protocols')
config_protocols == <<Chars["HTTP"], Chars["HTTPS"]>>

\* config.get('defaults', 'media_types'): the exact-match set
config_media_types == <<Chars["application/json"], Chars["application/xml"], Chars["text/xml"], s_form_urlencoded, s_multipart_form_data>>

\* config.get('defaults', 'prim_types')
config_prim_types == <<Chars["string"], Chars["number"], Chars["integer"], Chars["date"], Chars["boolean"], Chars["file"]>>

\* config.get('custom', 'auth_schemes')
config_auth_schemes == <<s_OAuth_1_0, s_OAuth_2_0, Chars["Basic Authentication"], Chars["Digest Authentication"]>>

\* config.get('custom', 'resp_codes')
config_resp_codes == <<200, 201, 400, 404, 500>>

-----------------------------------------------------------------------------
(* What a call of a rule produces: it returns, or it raises; obj is the     *)
(* rule's first argument as the call leaves it.                             *)

Ret(obj) == [exc |-> "none", msg |-> [text |-> "", with |-> None], obj |-> obj]

\* raise InvalidRamlFileError(msg); the message is its fixed text and the value
\* formatted into it.
Raise(text, with, obj) == [exc |-> "InvalidRamlFileError", msg |-> [text |-> text, with |-> with], obj |-> obj]

\* An exception of another class raised by the interpreter inside a rule.
Crash(kind, obj) == [exc |-> kind, msg |-> [text |-> "", with |-> None], obj |-> obj]

\* The least position of seq at which Bad holds, 0 if there is none.
FirstBad(seq, Bad(_)) ==
    LET hits == {i \in Idx(seq) : Bad(seq[i])}
    IN  IF hits = {} THEN 0 ELSE Min(hits)

-----------------------------------------------------------------------------
(* API metadata validation *)

base_uri(r) ==
    IF ~Truthy(Get(r, "baseUri"))
    THEN Raise("RAML File does not define the baseUri.", None, r)
    ELSE Ret(r)

\* '{version}' in raml.get('baseUri') is evaluated before "and not v"; on a value
\* that is no container the "in" raises TypeError.
version(r, args) ==
    IF Len(args) = 0 THEN Crash("IndexError", r)
    ELSE LET p == args[1]
             v == Get(r, "version")
             b == Get(r, "baseUri")
         IN  IF Truthy(p) /\ ~Truthy(v)
             THEN Raise("RAML File does not define an API version.", None, r)
             ELSE IF b.t \in {"None", "bool"} THEN Crash("TypeError", r)
             ELSE IF b.t = "str" /\ Contains(s_version_placeholder, b.v) /\ ~Truthy(v)
             THEN Raise("RAML File's baseUri includes {version} parameter but no version is defined.", None, r)
             ELSE Ret(r)

\* The file is its lines, each without its line break; an empty file has no line.
raml_header(f) ==
    IF Len(f.v) = 0 THEN Raise("RAML File is empty", None, f)
    ELSE LET header == f.v[1]
             tokens == Split(header)
         IN  IF header = <<>>
             THEN Raise("RAML header empty. Please make sure the first line of the file contains a valid RAML file definition.", None, f)
             ELSE IF Len(tokens) # 2
             THEN Raise("Not a valid RAML header: {0}.", Str(header), f)
             ELSE IF tokens[1] # s_raml_marker
             THEN Raise("Not a valid RAML header: {0}.", Str(tokens[1]), f)
             ELSE IF ~InSeq(tokens[2], config_raml_versions)
             THEN Raise("Not a valid version of RAML: {0}.", Str(tokens[2]), f)
             ELSE IF Len(f.v) = 1
             THEN Raise("No RAML data to parse.", None, f)
             ELSE Ret(f)

api_title(r) ==
    IF ~Truthy(Get(r, "title"))
    THEN Raise("RAML File does not define an API title.", None, r)
    ELSE Ret(r)

\* The first entry lacking a title or content decides; within an entry the title
\* is looked at first.
documentation(r) ==
    LET docs == Get(r, "documentation")
    IN  IF ~Truthy(docs) THEN Ret(r)
        ELSE LET NoTitle(d) == ~Truthy(Get(d, "title"))
                 Incomplete(d) == NoTitle(d) \/ ~Truthy(Get(d, "content"))
                 i == FirstBad(docs.v, Incomplete)
             IN  IF i = 0 THEN Ret(r)
                 ELSE IF NoTitle(docs.v[i])
                 THEN Raise("API Documentation requires a title.", None, r)
                 ELSE Raise("API Documentation requires content defined.", None, r)

base_uri_params(r) ==
    LET params == GetOr(r, "baseUriParameters", EmptyDict)
        NoDefault(kv) == ~InSeq("default", Keys(kv[2]))
        i == FirstBad(params.v, NoDefault)
    IN  IF i = 0 THEN Ret(r)
        ELSE Raise("The 'default' parameter is not set for base URI parameter '{0}'", Str(params.v[i][1]), r)

schemas(r) == Ret(r)

protocols(r) ==
    LET ps == Get(r, "protocols")
    IN  IF ~Truthy(ps) THEN Ret(r)
        ELSE LET Invalid(p) == ~InSeq(p.v, config_protocols)
                 i == FirstBad(ps.v, Invalid)
             IN  IF i = 0 THEN Ret(r)
                 ELSE Raise("'{0}' not a valid protocol for a RAML-defined API.", ps.v[i], r)

\* One character of the class [A-Za-z.-0-1]: the letters, the range from "." to
\* "0" (".", "/", "0"), "-" and "1".
RegexClass(c) ==
    \/ InSeq(c, UpperLetters)
    \/ InSeq(c, LowerLetters)
    \/ c \in {".", "/", "0"}
    \/ c \in {"-", "1"}

\* re.search(r"application\/[A-Za-z.-0-1]*?(json|xml)", s): somewhere in s,
\* "application/", then any number of class characters, then "json" or "xml".
MediaTypeRegexMatches(s) ==
    \E i \in Idx(s) : \E n \in 0 .. Len(s) :
        LET rest == i + Len(s_application_slash)
        IN  /\ OccursAt(s_application_slash, s, i)
            /\ rest + n - 1 <= Len(s)
            /\ \A j \in rest .. (rest + n - 1) : RegexClass(s[j])
            /\ \/ OccursAt(s_json, s, rest + n)
               \/ OccursAt(s_xml, s, rest + n)

\* A resource-like object reaches this rule through the property registry; it
\* is no mapping and has no get.
media_type(r) ==
    LET m == Get(r, "mediaType")
    IN  IF r.t # "dict" THEN Crash("AttributeError", r)
        ELSE IF ~Truthy(m) THEN Ret(r)
        ELSE IF InSeq(m.v, config_media_types) THEN Ret(r)
        ELSE IF MediaTypeRegexMatches(m.v) THEN Ret(r)
        ELSE Raise("Unsupported MIME Media Type: '{0}'.", m, r)

\* [list(iterkeys(s))[0] for s in schemes]: each entry of a list must be a
\* mapping (iterkeys of anything else raises AttributeError) with a first key
\* ([0] of no keys raises IndexError); iterating a mapping yields its keys, which
\* are strings.
security_schemes(r) ==
    LET schemes == GetOr(r, "securitySchemes", EmptyDict)
        entries == IF schemes.t = "dict" THEN [i \in Idx(schemes.v) |-> Str(schemes.v[i][1])] ELSE schemes.v
        NotMapping(e) == e.t # "dict"
        Unusable(e) == NotMapping(e) \/ Len(e.v) = 0
        u == FirstBad(entries, Unusable)
    IN  IF schemes.t \notin {"dict", "list"} THEN Crash("TypeError", r)
        ELSE IF u # 0
        THEN (IF NotMapping(entries[u]) THEN Crash("AttributeError", r) ELSE Crash("IndexError", r))
        ELSE LET names == [i \in Idx(entries) |-> Keys(entries[i])[1]]
                 Invalid(s) == ~InSeq(s, config_auth_schemes) /\ ~StartsWith(s, s_x_dash)
                 i == FirstBad(names, Invalid)
             IN  IF i = 0 THEN Ret(r)
                 ELSE Raise("'{0}' is not a valid Security Scheme.", Str(names[i]), r)

uri_params(r) ==
    LET params == GetOr(r, "uriParameters", EmptyDict)
        Reserved(k) == Lower(k) = s_version
    IN  IF FirstBad(Keys(params), Reserved) = 0 THEN Ret(r)
        ELSE Raise("'version' can only be defined in baseUriParameters.", None, r)

\* not resources or len(resources) < 1
has_resources(rs) ==
    IF ~Truthy(rs) \/ Len(rs.v) < 1
    THEN Raise("No resources are defined.", None, rs)
    ELSE Ret(rs)

-----------------------------------------------------------------------------
(* Trait, ResourceType and Resource validation.  A resource-like object is  *)
(* a record: hasattr(resource, a) is a \in DOMAIN resource.                 *)

hasattr(obj, a) == a \in DOMAIN obj

check_media_type(m) ==
    \/ InSeq(m, config_media_types)
    \/ m \in {s_schema, s_example}
    \/ MediaTypeRegexMatches(m)

FormMediaTypes == {s_form_urlencoded, s_multipart_form_data}

\* The first entry of the body that fails decides; its media type is checked
\* before its properties are read (iterkeys of None raises AttributeError).
body_media_type(body, obj) ==
    LET Unsupported(kv) == ~check_media_type(kv[1])
        FormEntry(kv) == kv[1] \in FormMediaTypes
        NoProps(kv) == FormEntry(kv) /\ kv[2].t # "dict"
        Conflict(kv) == FormEntry(kv) /\ kv[2].t = "dict" /\ InSeq("schema", Keys(kv[2]))
        Fails(kv) == Unsupported(kv) \/ NoProps(kv) \/ Conflict(kv)
        i == FirstBad(body.v, Fails)
    IN  IF i = 0 THEN Ret(obj)
        ELSE IF Unsupported(body.v[i])
        THEN Raise("Unsupported MIME Media Type: '{0}'.", Str(body.v[i][1]), obj)
        ELSE IF NoProps(body.v[i]) THEN Crash("AttributeError", obj)
        ELSE Raise("'schema' may not be specified when the body's media type is application/x-www-form-urlencoded or multipart/form-data.", None, obj)

\* The responses the rule validates: "found" is FALSE where reading them raises
\* (data[orig_method] is None, and None has no get).
responses_of(res) ==
    IF hasattr(res, "method") /\ Get(res.data, res.method) # None
    THEN [found |-> TRUE, resp |-> GetOr(GetOr(res.data, res.method, EmptyDict), "responses", EmptyDict)]
    ELSE IF hasattr(res, "orig_method")
    THEN LET scope == GetOr(res.data, res.orig_method, EmptyDict)
         IN  IF scope.t # "dict" THEN [found |-> FALSE, resp |-> EmptyDict]
             ELSE [found |-> TRUE, resp |-> GetOr(scope, "responses", EmptyDict)]
    ELSE [found |-> TRUE, resp |-> GetOr(res.data, "responses", EmptyDict)]

\* Every code is checked before any body is.
responses(res) ==
    LET eff == responses_of(res)
        resp == eff.resp
        Invalid(code) == ~InSeq(code, config_resp_codes)
        c == FirstBad(Keys(resp), Invalid)
        BodyOut(item) == body_media_type(GetOr(item, "body", EmptyDict), res)
        BadBody(item) == BodyOut(item).exc # "none"
        b == FirstBad(Values(resp), BadBody)
    IN  IF ~eff.found THEN Crash("AttributeError", res)
        ELSE IF c # 0 THEN Raise("'{0}' not a valid response code.", [t |-> "int", v |-> Keys(resp)[c]], res)
        ELSE IF b # 0 THEN BodyOut(Values(resp)[b])
        ELSE Ret(res)

primative_parameter(parameter, obj) ==
    LET prim_type == Get(Values(parameter)[1], "type")
    IN  IF prim_type.t # "None" /\ ~InSeq(prim_type.v, config_prim_types)
        THEN Raise("'{0}' is not a valid primative parameter type", prim_type, obj)
        ELSE Ret(obj)

\* The method-scoped parameters of property key: "found" is FALSE where reading
\* them raises.
method_params_of(res, key) ==
    IF hasattr(res, "orig_method")
    THEN LET scope == GetOr(res.data, res.orig_method, EmptyDict)
         IN  IF scope.t # "dict" THEN [found |-> FALSE, params |-> EmptyDict]
             ELSE [found |-> TRUE, params |-> GetOr(scope, key, EmptyDict)]
    ELSE IF hasattr(res, "method")
    THEN IF Get(res.data, res.method) # None
         THEN [found |-> TRUE, params |-> GetOr(GetOr(res.data, res.method, EmptyDict), key, EmptyDict)]
         ELSE [found |-> TRUE, params |-> EmptyDict]
    ELSE [found |-> TRUE, params |-> EmptyDict]


\* merge_params, were the resource-scoped entries put first
merge_params_resource_first(method_params, resource_params) == Dict(DictFromPairs(resource_params.v \o method_params.v))

\* dict(list(method_params.items()) + list(resource_params.items())): a new dict.
merge_params(method_params, resource_params) == Dict(DictFromPairs(method_params.v \o resource_params.v))


\* params_rule, were the merge done in place: resource_params.update(...) on
\* the mapping data holds
params_rule_in_place(res, key) ==
    LET resource_params == GetOr(res.data, key, EmptyDict)
        scoped == method_params_of(res, key)
        params == merge_params(scoped.params, resource_params)
        updated == [res EXCEPT !.data = Dict([i \in Idx(res.data.v) |-> IF res.data.v[i][1] = key THEN <<key, params>> ELSE res.data.v[i]])]
    IN  IF ~scoped.found THEN Crash("AttributeError", res)
        ELSE IF Truthy(params) THEN primative_parameter(params, updated)
        ELSE Ret(updated)

\* The body shared by __query_params, __uri_params_resource and __form_params.
params_rule(res, key) ==
    LET resource_params == GetOr(res.data, key, EmptyDict)
        scoped == method_params_of(res, key)
        params == merge_params(scoped.params, resource_params)
    IN  IF ~scoped.found THEN Crash("AttributeError", res)
        ELSE IF Truthy(params) THEN primative_parameter(params, res)
        ELSE Ret(res)

query_params(res) == params_rule(res, "queryParameters")

uri_params_resource(res) == params_rule(res, "uriParameters")

form_params(res) == params_rule(res, "formParameters")

headers(res) == Ret(res)

\* The first "if" only reads; the second "if"/"else" always assigns body again.
body_of(res) ==
    LET first == IF hasattr(res, "orig_method") THEN GetOr(res.data, res.orig_method, EmptyDict) ELSE EmptyDict
    IN  IF first.t # "dict" THEN [found |-> FALSE, body |-> EmptyDict]
        ELSE IF hasattr(res, "method")
        THEN IF Get(res.data, res.method) # None
             THEN [found |-> TRUE, body |-> GetOr(GetOr(res.data, res.method, EmptyDict), "body", EmptyDict)]
             ELSE [found |-> TRUE, body |-> GetOr(res.data, "body", EmptyDict)]
        ELSE [found |-> TRUE, body |-> GetOr(res.data, "body", EmptyDict)]

body(res) ==
    LET eff == body_of(res)
    IN  IF ~eff.found THEN Crash("AttributeError", res)
        ELSE body_media_type(eff.body, res)

description(res) == Ret(res)

base_uri_params_resource(res) == Ret(res)


\* check_assigned_type, were the count of entries not checked
check_assigned_type_uncounted(assigned, res, args) ==
    IF ~Truthy(assigned) THEN Ret(res)
    ELSE IF Len(args) = 0 THEN Crash("IndexError", res)
    ELSE LET name == CASE assigned.t = "dict" -> Keys(assigned)[1]
                       [] assigned.t = "list" -> assigned.v[1].v
                       [] OTHER -> assigned.v
             valid_resource_types == [i \in Idx(args[1].resource_types) |-> args[1].resource_types[i].name]
         IN  IF ~InSeq(name, valid_resource_types)
             THEN Raise("'{0}' is not defined in resourceTypes", Str(name), res)
             ELSE Ret(res)

\* The shape check and existence check shared by __set_type (on data['type'])
\* and __resource_type (on the type attribute).
check_assigned_type(assigned, res, args) ==
    IF ~Truthy(assigned) THEN Ret(res)
    ELSE IF assigned.t \in {"dict", "list"} /\ Len(assigned.v) > 1
    THEN Raise("Too many resource types applied to '{0}'.", Str(res.name), res)
    ELSE IF Len(args) = 0 THEN Crash("IndexError", res)
    ELSE LET name == CASE assigned.t = "dict" -> Keys(assigned)[1]
                       [] assigned.t = "list" -> assigned.v[1].v
                       [] OTHER -> assigned.v
             valid_resource_types == [i \in Idx(args[1].resource_types) |-> args[1].resource_types[i].name]
         IN  IF ~InSeq(name, valid_resource_types)
             THEN Raise("'{0}' is not defined in resourceTypes", Str(name), res)
             ELSE Ret(res)

set_type(res, args) == check_assigned_type(Get(res.data, "type"), res, args)

resource_type(res, args) ==
    IF ~hasattr(res, "type") THEN Crash("AttributeError", res)
    ELSE check_assigned_type(res.type, res, args)

secured_by(res, args) ==
    LET secured == Get(res.data, "securedBy")
    IN  IF ~Truthy(secured) THEN Ret(res)
        ELSE IF Len(args) = 0 THEN Crash("IndexError", res)
        ELSE LET schemes == args[1].security_schemes
                 scheme_names == [i \in Idx(schemes) |-> schemes[i].name]
                 NameOf(s) == IF s.t = "dict" THEN Keys(s)[1] ELSE s.v
                 Undefined(s) == ~InSeq(NameOf(s), scheme_names)
                 i == FirstBad(secured.v, Undefined)
             IN  IF Len(schemes) = 0
                 THEN Raise("No Security Schemes are defined in RAML file but {0} scheme is assigned to '{1}'.", secured, res)
                 ELSE IF i = 0 THEN Ret(res)
                 ELSE Raise("'{0}' is applied to '{1}' but is not defined in the securitySchemes", Str(NameOf(secured.v[i])), res)

-----------------------------------------------------------------------------
(* Security scheme validation *)

oauth2_attrs == <<"authorizationUri", "accessTokenUri", "authorizationGrants", "scopes">>

oauth1_attrs == <<"requestTokenUri", "authorizationUri", "tokenCredentialsUri">>


\* security_settings, were the keys of OAuth 1.0 tested in the reverse order
security_settings_reversed(sch) ==
    LET settings == Get(sch.data, "settings")
        attrs == Keys(settings)
        Missing(attr) == ~InSeq(attr, attrs)
        required == IF sch.type = s_OAuth_2_0 THEN oauth2_attrs
                    ELSE IF sch.type = s_OAuth_1_0 THEN <<oauth1_attrs[3], oauth1_attrs[2], oauth1_attrs[1]>>
                    ELSE <<>>
        i == FirstBad(required, Missing)
    IN  IF ~Truthy(settings) THEN Ret(sch)
        ELSE IF i = 0 THEN Ret(sch)
        ELSE IF sch.type = s_OAuth_2_0
        THEN Raise("Need to defined '{0}' in securitySchemas settings for a valid OAuth 2.0 scheme", Str(required[i]), sch)
        ELSE Raise("Need to defined '{0}' in securitySchemas settings for a valid OAuth 1.0 scheme", Str(required[i]), sch)

\* The two "if"s are tried in turn; a scheme has one type, so at most one applies.
security_settings(sch) ==
    LET settings == Get(sch.data, "settings")
        attrs == Keys(settings)
        Missing(attr) == ~InSeq(attr, attrs)
        required == IF sch.type = s_OAuth_2_0 THEN oauth2_attrs
                    ELSE IF sch.type = s_OAuth_1_0 THEN oauth1_attrs
                    ELSE <<>>
        i == FirstBad(required, Missing)
    IN  IF ~Truthy(settings) THEN Ret(sch)
        ELSE IF i = 0 THEN Ret(sch)
        ELSE IF sch.type = s_OAuth_2_0
        THEN Raise("Need to defined '{0}' in securitySchemas settings for a valid OAuth 2.0 scheme", Str(required[i]), sch)
        ELSE Raise("Need to defined '{0}' in securitySchemas settings for a valid OAuth 1.0 scheme", Str(required[i]), sch)

-----------------------------------------------------------------------------
(* Helper/mapping functions: the two registries *)

validate_func_registry == <<
    <<"_set_base_uri", "__base_uri">>,
    <<"_set_version", "__version">>,
    <<"__raml_header", "__raml_header">>,
    <<"_set_title", "__api_title">>,
    <<"_set_docs", "__documentation">>,
    <<"_set_base_uri_params", "__base_uri_params">>,
    <<"_set_schemas", "__schemas">>,
    <<"_set_protocols", "__protocols">>,
    <<"_set_media_type", "__media_type">>,
    <<"_parse_security_schemes", "__security_schemes">>,
    <<"_set_uri_params", "__uri_params">>,
    <<"__get_resource_type", "__resource_type">>,
    <<"__set_settings_dict", "__security_settings">>,
    <<"__get_secured_by", "__secured_by">>,
    <<"__add_properties_to_resources", "__has_resources">>,
    <<"__set_type", "__set_type">> >>

validate_prop_registry == <<
    <<"responses", "__responses">>,
    <<"queryParameters", "__query_params">>,
    <<"uriParameters", "__uri_params_resource">>,
    <<"formParameters", "__form_params">>,
    <<"headers", "__headers">>,
    <<"body", "__body">>,
    <<"description", "__description">>,
    <<"mediaType", "__media_type">>,
    <<"baseUriParameters", "__base_uri_params_resource">> >>

\* {...}[func_name]: the rule, or "KeyError" where the name is no key
map_to_validate_func(func_name) == GetOr(Dict(validate_func_registry), func_name, "KeyError")

\* {...}[property]
map_to_validate_prop(property) == GetOr(Dict(validate_prop_registry), property, "KeyError")

\* rule(first, *args): the call of the function a registry returned
call_rule(rule, first, args) ==
    CASE rule = "__base_uri" -> base_uri(first)
      [] rule = "__version" -> version(first, args)
      [] rule = "__raml_header" -> raml_header(first)
      [] rule = "__api_title" -> api_title(first)
      [] rule = "__documentation" -> documentation(first)
      [] rule = "__base_uri_params" -> base_uri_params(first)
      [] rule = "__schemas" -> schemas(first)
      [] rule = "__protocols" -> protocols(first)
      [] rule = "__media_type" -> media_type(first)
      [] rule = "__security_schemes" -> security_schemes(first)
      [] rule = "__uri_params" -> uri_params(first)
      [] rule = "__resource_type" -> resource_type(first, args)
      [] rule = "__security_settings" -> security_settings(first)
      [] rule = "__secured_by" -> secured_by(first, args)
      [] rule = "__has_resources" -> has_resources(first)
      [] rule = "__set_type" -> set_type(first, args)
      [] rule = "__responses" -> responses(first)
      [] rule = "__query_params" -> query_params(first)
      [] rule = "__uri_params_resource" -> uri_params_resource(first)
      [] rule = "__form_params" -> form_params(first)
      [] rule = "__headers" -> headers(first)
      [] rule = "__body" -> body(first)
      [] rule = "__description" -> description(first)
      [] rule = "__base_uri_params_resource" -> base_uri_params_resource(first)

-----------------------------------------------------------------------------
(* Decorator functions *)

\* The wrapped construction operation: its result is a value made of its name
\* and of the arguments it was called with.
func(name, args) == [t |-> "built", by |-> name, args |-> args]

NoMsg == [text |-> "", with |-> None]


\* validate_enabled, were the flag tested for being set instead of for "1"
validate_enabled_if_set(env, cfg) == IF env # None THEN TRUE ELSE cfg = Str(s_True)

\* validate.func_wrapper: validate = os.environ.get('RAML_VALIDATE') == '1';
\* if not validate: validate = config.get('main', 'validate') == 'True'
validate_enabled(env, cfg) == IF env = Str(s_1) THEN TRUE ELSE cfg = Str(s_True)

\* validate_property.func_wrapper: the same two lines
validate_property_enabled(env, cfg) == IF env = Str(s_1) THEN TRUE ELSE cfg = Str(s_True)

\* What one call of a wrapper did: the steps it took in order, the exception
\* that left it ("none" if it returned), its return value, and its first
\* argument as the call left it.
Outcome(steps, rule, exc, msg, func_args, ret, obj) ==
    [steps |-> steps, rule |-> rule, exc |-> exc, msg |-> msg, func_args |-> func_args, ret |-> ret, obj |-> obj]


\* The wrapper after the lookup: rule(first, *args), then "return func(...)".
\* out is what the rule did; if it raised, the statement after it is not
\* reached.  before holds the positional arguments that precede args in the
\* call of func, the first of them as the rule left it.
rule_then_func(func_name, rule, out, before, args) ==
    IF out.exc # "none"
    THEN Outcome(<<"lookup", "rule">>, rule, out.exc, out.msg, <<>>, None, out.obj)
    ELSE Outcome(<<"lookup", "rule", "func">>, rule, "none", NoMsg, before \o args, func(func_name, before \o args), out.obj)

\* validate_func_wrapper, were the rule's exception caught and the operation
\* run all the same
validate_func_wrapper_catching(func_name, first, args) ==
    IF ~validate_enabled(environ, config_validate)
    THEN Outcome(<<"func">>, "", "none", NoMsg, <<first>> \o args, func(func_name, <<first>> \o args), first)
    ELSE IF map_to_validate_func(func_name) = "KeyError"
    THEN Outcome(<<"lookup">>, "", "KeyError", NoMsg, <<>>, None, first)
    ELSE rule_then_func(func_name, map_to_validate_func(func_name), Ret(first), <<first>>, args)

\* func_wrapper(raml, *args) of validate(func)
validate_func_wrapper(func_name, first, args) ==
    IF ~validate_enabled(environ, config_validate)
    THEN Outcome(<<"func">>, "", "none", NoMsg, <<first>> \o args, func(func_name, <<first>> \o args), first)
    ELSE IF map_to_validate_func(func_name) = "KeyError"
    THEN Outcome(<<"lookup">>, "", "KeyError", NoMsg, <<>>, None, first)
    ELSE rule_then_func(func_name, map_to_validate_func(func_name), call_rule(map_to_validate_func(func_name), first, args), <<first>>, args)

\* func_wrapper(resource, property, *args) of validate_property(func): the rule
\* is called without the property, the operation with it.
validate_property_func_wrapper(func_name, first, property, args) ==
    IF ~validate_property_enabled(environ, config_validate)
    THEN Outcome(<<"func">>, "", "none", NoMsg, <<first, property>> \o args, func(func_name, <<first, property>> \o args), first)
    ELSE IF map_to_validate_prop(property) = "KeyError"
    THEN Outcome(<<"lookup">>, "", "KeyError", NoMsg, <<>>, None, first)
    ELSE rule_then_func(func_name, map_to_validate_prop(property), call_rule(map_to_validate_prop(property), first, args), <<first, property>>, args)

-----------------------------------------------------------------------------
(* The callers: the model builder calls each wrapped operation with the     *)
(* object under construction first, then the extra arguments of the rule.   *)

\* An operation may be wrapped without being registered.
FuncNames == {validate_func_registry[i][1] : i \in Idx(validate_func_registry)} \cup {"_set_traits"}

PropertyNames == {validate_prop_registry[i][1] : i \in Idx(validate_prop_registry)} \cup {"is"}

\* The state variable holding the first argument of a wrapped operation.
ArgVar(func_name) ==
    CASE func_name = "__raml_header" -> "raml_file"
      [] func_name = "__add_properties_to_resources" -> "resources"
      [] func_name \in {"__get_resource_type", "__get_secured_by", "__set_type"} -> "resource"
      [] func_name = "__set_settings_dict" -> "scheme"
      [] OTHER -> "raml"

FirstArg(func_name) ==
    CASE ArgVar(func_name) = "raml_file" -> raml_file
      [] ArgVar(func_name) = "resources" -> resources
      [] ArgVar(func_name) = "resource" -> resource
      [] ArgVar(func_name) = "scheme" -> scheme
      [] OTHER -> raml

\* The remaining positional arguments: the production-mode flag, the Root.
ExtraArgs(func_name) ==
    CASE func_name = "_set_version" -> <<Bool(prod)>>
      [] ArgVar(func_name) = "resource" -> <<root>>
      [] OTHER -> <<>>

\* The record of the last call of a wrapper.
CallRecord(wrapper, name, args, call) ==
    [wrapper |-> wrapper, name |-> name, args |-> args, steps |-> call.steps, rule |-> call.rule, exc |-> call.exc, msg |-> call.msg, func_args |-> call.func_args, ret |-> call.ret]

NoCall == [wrapper |-> "none", name |-> "", args |-> <<>>, steps |-> <<>>, rule |-> "", exc |-> "none", msg |-> NoMsg, func_args |-> <<>>, ret |-> None]

\* One call of an operation wrapped by validate.
validate(func_name) ==
    \E call \in {validate_func_wrapper(func_name, FirstArg(func_name), ExtraArgs(func_name))} :
        /\ last' = CallRecord("validate", func_name, <<FirstArg(func_name)>> \o ExtraArgs(func_name), call)
        /\ raml' = IF ArgVar(func_name) = "raml" THEN call.obj ELSE raml
        /\ raml_file' = IF ArgVar(func_name) = "raml_file" THEN call.obj ELSE raml_file
        /\ resources' = IF ArgVar(func_name) = "resources" THEN call.obj ELSE resources
        /\ resource' = IF ArgVar(func_name) = "resource" THEN call.obj ELSE resource
        /\ scheme' = IF ArgVar(func_name) = "scheme" THEN call.obj ELSE scheme
        /\ UNCHANGED <<environ, config_validate, prod, root>>

\* One call of an operation wrapped by validate_property, for one property of
\* the resource-like object.
validate_property(property) ==
    \E call \in {validate_property_func_wrapper("_get_attribute", resource, property, <<root>>)} :
        /\ last' = CallRecord("validate_property", property, <<resource, property, root>>, call)
        /\ resource' = call.obj
        /\ UNCHANGED <<environ, config_validate, raml, prod, raml_file, resources, root, scheme>>

Next ==
    \/ \E func_name \in FuncNames : validate(func_name)
    \/ \E property \in PropertyNames : validate_property(property)

-----------------------------------------------------------------------------
(* The objects the model builder hands to the wrapped operations *)

\* A file on disk: its lines.
File(lines) == [t |-> "file", v |-> lines]

\* The Root: resource_types and security_schemes are sequences of named nodes.
Root(type_names, scheme_names) ==
    [t |-> "object",
     resource_types |-> [i \in Idx(type_names) |-> [name |-> type_names[i]]],
     security_schemes |-> [i \in Idx(scheme_names) |-> [name |-> scheme_names[i]]]]

\* A resource-like object.  A Resource carries method, a resource type applied
\* to a method carries orig_method (and, once resolved, method too), a Trait
\* carries neither; a Trait has no type attribute.
View(exposes, data, type) ==
    CASE exposes = "method" -> [t |-> "object", name |-> Chars["/users"], data |-> data, type |-> type, method |-> "get"]
      [] exposes = "orig_method" -> [t |-> "object", name |-> Chars["/users"], data |-> data, type |-> type, orig_method |-> "get?"]
      [] exposes = "both" -> [t |-> "object", name |-> Chars["/users"], data |-> data, type |-> type, method |-> "get", orig_method |-> "get?"]
      [] OTHER -> [t |-> "object", name |-> Chars["/users"], data |-> data]

Exposures == {"method", "orig_method", "both", "neither"}

\* A security scheme object.
Scheme(type, data) == [t |-> "object", name |-> Chars["oauth_2_0"], type |-> type, data |-> data]

\* d without key k, and d with key k set to v (k keeps its place; a new key is
\* appended): how the inputs below are written down.
Without(d, k) ==
    LET Other(kv) == kv[1] # k
    IN  Dict(SelectSeq(d.v, Other))

With(d, k, v) == Dict(DictFromPairs(Append(d.v, <<k, v>>)))

\* A dict holding, in order, the pairs whose value is not Absent.
Absent == [t |-> "absent"]

Present(pairs) ==
    LET Given(kv) == kv[2] # Absent
    IN  Dict(SelectSeq(pairs, Given))

DefaultDoc == Dict(<<
    <<"baseUri", Str(Chars["https://a.io/{version}"])>>,
    <<"version", Str(Chars["v1"])>>,
    <<"title", Str(Chars["API"])>>,
    <<"documentation", List(<<Dict(<< <<"title", Str(Chars["API"])>>, <<"content", Str(Chars["API"])>> >>)>>)>>,
    <<"baseUriParameters", Dict(<< <<Chars["id"], Dict(<< <<"default", Str(Chars["v1"])>> >>)>> >>)>>,
    <<"protocols", List(<<Str(Chars["HTTPS"])>>)>>,
    <<"mediaType", Str(Chars["application/json"])>>,
    <<"securitySchemes", List(<<Dict(<< <<s_OAuth_2_0, EmptyDict>> >>)>>)>>,
    <<"uriParameters", Dict(<< <<Chars["id"], EmptyDict>> >>)>> >>)

DocKeys == {DefaultDoc.v[i][1] : i \in Idx(DefaultDoc.v)}

\* Other values a Document may give a key.
DocAlternatives(k) ==
    CASE k = "baseUri" -> {Str(Chars["https://a.io"]), Str(<<>>)}
      [] k = "version" -> {Str(<<>>)}
      [] k = "title" -> {Str(<<>>)}
      [] k = "documentation" -> {List(<<Dict(<< <<"title", Str(Chars["API"])>> >>)>>), List(<<Dict(<< <<"content", Str(Chars["API"])>> >>)>>)}
      [] k = "baseUriParameters" -> {Dict(<< <<Chars["id"], EmptyDict>> >>)}
      [] k = "protocols" -> {List(<<Str(Chars["HTTP"]), Str(Chars["FTP"])>>)}
      [] k = "mediaType" -> {Str(Chars["application/vnd.api+json"]), Str(Chars["application/hal-json"]), Str(Chars["text/plain"]), Str(s_schema)}
      [] k = "securitySchemes" -> {List(<<Dict(<< <<Chars["x-custom"], EmptyDict>> >>)>>), List(<<Dict(<< <<Chars["apikey"], EmptyDict>> >>)>>), Dict(<< <<Chars["apikey"], EmptyDict>> >>), List(<<EmptyDict>>)}
      [] k = "uriParameters" -> {Dict(<< <<Chars["Version"], EmptyDict>> >>)}

\* The Documents one change of one key away from d.
DocChanges(d) == {Without(d, k) : k \in DocKeys} \cup UNION {{With(d, k, v) : v \in DocAlternatives(k)} : k \in DocKeys}

\* The default Document, the empty one, and those one change away from the
\* default.
Documents == {DefaultDoc, EmptyDict} \cup DocChanges(DefaultDoc)

RamlFiles == {File(<<>>), File(<<Chars["#%RAML 0.8"]>>), File(<<Chars["#%RAML 0.8"], Chars["title: X"]>>), File(<<Chars["#%RAML 1.0"], Chars["title: X"]>>), File(<<s_raml_marker, Chars["title: X"]>>), File(<<Chars["#%YAML 0.8"], Chars["title: X"]>>), File(<<<<>>, Chars["title: X"]>>), File(<<Chars[" "], Chars["title: X"]>>)}

DefaultFile == File(<<Chars["#%RAML 0.8"], Chars["title: X"]>>)

ResourceLists == {None, List(<<>>), List(<<Str(Chars["/users"])>>)}

DefaultResources == List(<<Str(Chars["/users"])>>)

DefaultRoot == Root(<<Chars["Collection"]>>, <<Chars["oauth_2_0"]>>)

Roots == {DefaultRoot, Root(<<>>, <<>>), Root(<<Chars["Member"], Chars["Collection"]>>, <<Chars["basic"]>>)}

-----------------------------------------------------------------------------
(* Resource-like objects: one property, given at the top of data and under  *)
(* the method keys the object's attributes name.                            *)

\* What data may hold under a method key for property key: nothing, None (a
\* method with an empty definition), a mapping without the property, or a
\* mapping giving the property one of the values.
ScopeValues(key, values) == {Absent, None, EmptyDict} \cup {Dict(<< <<key, v>> >>) : v \in values}

\* data with the property at the top and under "get" and "get?"
ScopedData(key, top, get_scope, orig_scope) == Present(<< <<key, top>>, <<"get", get_scope>>, <<"get?", orig_scope>> >>)

\* The objects for one property: data holds a method key only if the object
\* has the attribute naming it; where the object has both attributes, the
\* "get" scope is absent or gives the property the value probe.
ScopedViews(key, values, probe) ==
    LET tops == {Absent} \cup values
        scopes == ScopeValues(key, values)
    IN  {View("neither", ScopedData(key, top, Absent, Absent), None) : top \in tops}
        \cup {View("method", ScopedData(key, top, g, Absent), None) : top \in tops, g \in scopes}
        \cup {View("orig_method", ScopedData(key, top, Absent, o), None) : top \in tops, o \in scopes}
        \cup {View("both", ScopedData(key, top, g, o), None) : top \in tops, g \in {Absent, Dict(<< <<key, probe>> >>)}, o \in scopes}

ResponsesOK == Dict(<< <<200, Dict(<< <<"body", Dict(<< <<Chars["application/json"], EmptyDict>> >>)>> >>)>> >>)

ResponsesBadCode == Dict(<< <<200, EmptyDict>>, <<999, EmptyDict>> >>)

ResponsesBadBody == Dict(<< <<404, Dict(<< <<"body", Dict(<< <<Chars["text/plain"], EmptyDict>> >>)>> >>)>> >>)

ResponsesValues == {ResponsesOK, ResponsesBadCode, ResponsesBadBody}

BodyOK == Dict(<< <<Chars["application/json"], EmptyDict>>, <<s_schema, EmptyDict>> >>)

BodyUnsupported == Dict(<< <<Chars["text/plain"], EmptyDict>> >>)

BodyFormWithSchema == Dict(<< <<s_form_urlencoded, Dict(<< <<"schema", EmptyDict>> >>)>> >>)

BodyFormEmpty == Dict(<< <<s_multipart_form_data, None>> >>)

BodyValues == {BodyOK, BodyUnsupported, BodyFormWithSchema, BodyFormEmpty}

\* The objects the Responses and Body rules are checked on.
BodyViews == ScopedViews("responses", ResponsesValues, ResponsesBadCode) \cup ScopedViews("body", BodyValues, BodyUnsupported)

ParamNames == {Chars["id"], Chars["q"]}

\* A parameter declares no type, a valid type or an invalid one.
ParamSpecs == {EmptyDict, Dict(<< <<"type", Str(Chars["string"])>> >>), Dict(<< <<"type", Str(Chars["bogus"])>> >>)}

MaxParams == 2

\* The parameter mappings of at most n entries.
ParamMaps(n) ==
    LET Distinct(m) == \A i, j \in Idx(m) : i # j => m[i][1] # m[j][1]
    IN  {Dict(m) : m \in {x \in UNION {[1 .. k -> ParamNames \X ParamSpecs] : k \in 0 .. n} : Distinct(x)}}

ParamProperties == {"queryParameters", "uriParameters", "formParameters"}

ParamProbe == Dict(<< <<Chars["id"], Dict(<< <<"type", Str(Chars["bogus"])>> >>)>> >>)

\* The objects the parameter rules are checked on.
ParamViews == UNION {ScopedViews(key, ParamMaps(MaxParams), ParamProbe) : key \in ParamProperties}

-----------------------------------------------------------------------------
(* Resource type references *)

TypeNames == {Chars["Collection"], Chars["Member"], Chars["Item"]}

MaxTypeRefs == 2

\* The sequences over S of length lo to hi
SeqsOf(S, lo, hi) == UNION {[1 .. k -> S] : k \in lo .. hi}

\* A type reference: absent or empty, a bare name, a mapping of names, a
\* sequence of names.
TypeRefs ==
    LET Distinct(m) == \A i, j \in Idx(m) : i # j => m[i] # m[j]
    IN  {None, Str(<<>>), EmptyDict, List(<<>>)}
        \cup {Str(n) : n \in TypeNames}
        \cup {Dict([i \in Idx(m) |-> <<m[i], EmptyDict>>]) : m \in {x \in SeqsOf(TypeNames, 1, MaxTypeRefs) : Distinct(x)}}
        \cup {List([i \in Idx(m) |-> Str(m[i])]) : m \in SeqsOf(TypeNames, 1, MaxTypeRefs)}

MaxDeclaredTypes == 2

\* The Roots by the resource types they declare.
TypeRoots == {Root(m, <<Chars["oauth_2_0"]>>) : m \in SeqsOf({Chars["Collection"], Chars["Member"]}, 0, MaxDeclaredTypes)}

\* A Resource whose data gives type the raw reference and whose type attribute
\* is the resolved one: the same reference, or a fixed other one.
TypeViewsFor(raw) == {View("method", Present(<< <<"type", IF raw = None THEN Absent ELSE raw>> >>), resolved) : resolved \in {raw, None, Str(Chars["Collection"])}}

TypeViews == UNION {TypeViewsFor(raw) : raw \in TypeRefs}

-----------------------------------------------------------------------------
(* Security scheme objects *)

SettingKeys == <<"requestTokenUri", "authorizationUri", "tokenCredentialsUri", "accessTokenUri", "authorizationGrants", "scopes", "extra">>

\* The settings holding the keys of S, in the order of SettingKeys.
Settings(S) == Present([i \in Idx(SettingKeys) |-> <<SettingKeys[i], IF SettingKeys[i] \in S THEN Str(Chars["API"]) ELSE Absent>>])

SchemeTypes == {s_OAuth_2_0, s_OAuth_1_0, Chars["Basic Authentication"], Chars["x-custom"]}

\* Every scheme type with no settings, with settings None, and with every set
\* of setting keys.
Schemes ==
    {Scheme(ty, d) : ty \in SchemeTypes, d \in {EmptyDict, Dict(<< <<"settings", None>> >>)}}
    \cup {Scheme(ty, Dict(<< <<"settings", Settings(S)>> >>)) : ty \in SchemeTypes, S \in SUBSET {SettingKeys[i] : i \in Idx(SettingKeys)}}

DefaultScheme == Scheme(s_OAuth_2_0, Dict(<< <<"settings", Settings({"authorizationUri", "accessTokenUri", "authorizationGrants", "scopes"})>> >>))

-----------------------------------------------------------------------------
(* One build session: the default objects, one of them replaced *)

DefaultData == Dict(<<
    <<"type", Str(Chars["Collection"])>>,
    <<"securedBy", List(<<Str(Chars["oauth_2_0"])>>)>>,
    <<"queryParameters", Dict(<< <<Chars["q"], Dict(<< <<"type", Str(Chars["string"])>> >>)>> >>)>>,
    <<"get", Dict(<< <<"responses", ResponsesOK>>, <<"body", BodyOK>>, <<"queryParameters", Dict(<< <<Chars["id"], Dict(<< <<"type", Str(Chars["integer"])>> >>)>> >>)>> >>)>> >>)

\* The scope of a method of a resource type: everything in it is invalid.
InvalidScope == Dict(<< <<"responses", ResponsesBadCode>>, <<"body", BodyUnsupported>>, <<"queryParameters", ParamProbe>> >>)

SessionData == {
    DefaultData,
    With(DefaultData, "get", None),
    Without(DefaultData, "get"),
    With(DefaultData, "get?", InvalidScope),
    With(Without(DefaultData, "get"), "get?", InvalidScope),
    With(DefaultData, "queryParameters", Dict(<< <<Chars["id"], Dict(<< <<"type", Str(Chars["bogus"])>> >>)>> >>)),
    With(DefaultData, "type", List(<<Str(Chars["Collection"]), Str(Chars["Member"])>>)),
    With(DefaultData, "type", Dict(<< <<Chars["Item"], EmptyDict>> >>)),
    With(DefaultData, "securedBy", List(<<Dict(<< <<Chars["basic"], EmptyDict>> >>)>>)) }

SessionViews == {View(e, d, Str(Chars["Collection"])) : e \in Exposures, d \in SessionData}

DefaultView == View("method", DefaultData, Str(Chars["Collection"]))

SessionSchemes == {
    DefaultScheme,
    Scheme(s_OAuth_2_0, Dict(<< <<"settings", Settings({"authorizationUri", "accessTokenUri"})>> >>)),
    Scheme(s_OAuth_1_0, Dict(<< <<"settings", Settings({"authorizationUri", "requestTokenUri", "tokenCredentialsUri"})>> >>)),
    Scheme(s_OAuth_1_0, Dict(<< <<"settings", Settings({"scopes"})>> >>)),
    Scheme(Chars["Basic Authentication"], EmptyDict) }

\* os.environ.get('RAML_VALIDATE'): unset, or a string
Environs == {None, Str(s_1), Str(Chars["0"]), Str(s_True)}

\* config.get('main', 'validate')
ConfigValues == {Str(s_True), Str(Chars["False"]), Str(Chars["true"])}

\* Every object is the default one.
Defaults(skip) ==
    /\ "raml" \in skip \/ (raml = DefaultDoc /\ prod = FALSE)
    /\ "raml_file" \in skip \/ raml_file = DefaultFile
    /\ "resources" \in skip \/ resources = DefaultResources
    /\ "root" \in skip \/ root = DefaultRoot
    /\ "resource" \in skip \/ resource = DefaultView
    /\ "scheme" \in skip \/ scheme = DefaultScheme

\* Validation is on: RAML_VALIDATE=1.
GateOn ==
    /\ environ = Str(s_1)
    /\ config_validate = Str(Chars["False"])

\* A session.  Either the gate is in any setting and the Document and the
\* resource-like object are valid or invalid ones, or validation is on and one
\* object is any of its kind.
Init ==
    /\ last = NoCall
    /\ \/ /\ environ \in Environs
          /\ config_validate \in ConfigValues
          /\ raml \in {DefaultDoc, EmptyDict}
          /\ prod = FALSE
          /\ resource \in {DefaultView, View("orig_method", With(Without(DefaultData, "get"), "get?", InvalidScope), None)}
          /\ Defaults({"raml", "resource"})
       \/ GateOn /\ raml \in Documents /\ prod \in BOOLEAN /\ Defaults({"raml"})
       \/ GateOn /\ raml_file \in RamlFiles /\ Defaults({"raml_file"})
       \/ GateOn /\ resources \in ResourceLists /\ Defaults({"resources"})
       \/ GateOn /\ root \in Roots /\ Defaults({"root"})
       \/ GateOn /\ resource \in SessionViews /\ Defaults({"resource"})
       \/ GateOn /\ scheme \in SessionSchemes /\ Defaults({"scheme"})

Spec == Init /\ [][Next]_vars

\* Validation on, every resource-like object of the Responses and Body rules,
\* and the calls that reach these two rules.
InitViews ==
    /\ GateOn
    /\ last = NoCall
    /\ resource \in BodyViews
    /\ Defaults({"resource"})

NextViews == \E property \in {"responses", "body"} : validate_property(property)

SpecViews == InitViews /\ [][NextViews]_vars

\* Validation on, every resource-like object of the parameter rules, and the
\* calls that reach the three parameter rules.
InitParams ==
    /\ GateOn
    /\ last = NoCall
    /\ resource \in ParamViews
    /\ Defaults({"resource"})

NextParams == \E property \in ParamProperties : validate_property(property)

SpecParams == InitParams /\ [][NextParams]_vars

\* Validation on, every type reference against every Root, and the calls that
\* reach the two type rules.
InitTypes ==
    /\ GateOn
    /\ last = NoCall
    /\ resource \in TypeViews
    /\ root \in TypeRoots
    /\ Defaults({"resource", "root"})

NextTypes == \E func_name \in {"__set_type", "__get_resource_type"} : validate(func_name)

SpecTypes == InitTypes /\ [][NextTypes]_vars

\* Validation on, every security scheme object, and the call that reaches the
\* settings rule.
InitSchemes ==
    /\ GateOn
    /\ last = NoCall
    /\ scheme \in Schemes
    /\ Defaults({"scheme"})

NextSchemes == validate("__set_settings_dict")

SpecSchemes == InitSchemes /\ [][NextSchemes]_vars

-----------------------------------------------------------------------------
(* Properties *)

\* RAML_VALIDATE equals "1", or main/validate equals "True".
GateOpen == environ = Str(s_1) \/ config_validate = Str(s_True)

Called == last.wrapper # "none"

\* The name the last call looks up, and whether its registry holds it.
Registered ==
    IF last.wrapper = "validate"
    THEN last.name \in {validate_func_registry[i][1] : i \in Idx(validate_func_registry)}
    ELSE last.name \in {validate_prop_registry[i][1] : i \in Idx(validate_prop_registry)}

\* C1: in both wrappers a rule is looked up, and (the name being registered)
\* invoked, exactly when RAML_VALIDATE is "1" or main/validate is "True";
\* otherwise there is no lookup, so no error for an unregistered name or an
\* invalid Document, and the wrapped operation runs and returns.
C1_GateDecidesValidation ==
    Called =>
        /\ InSeq("lookup", last.steps) <=> GateOpen
        /\ InSeq("rule", last.steps) <=> (GateOpen /\ Registered)
        /\ ~GateOpen => (last.steps = <<"func">> /\ last.exc = "none" /\ last.func_args = last.args /\ last.ret # None)

\* C1 witness: the flag is unset and the configuration says "False"; the
\* operation of an empty Document without baseUri ran, nothing was looked up.
C1_Witness ==
    /\ environ = None
    /\ config_validate = Str(Chars["False"])
    /\ raml = EmptyDict
    /\ last.name = "_set_base_uri"
    /\ last.steps = <<"func">>
    /\ last.exc = "none"

\* The rule the last call resolved, called again on the arguments the wrapper
\* received (the property is not passed to the rule).
RuleArgs == IF last.wrapper = "validate" THEN Tail(last.args) ELSE SubSeq(last.args, 3, Len(last.args))

RuleOutcome ==
    LET rule == IF last.wrapper = "validate" THEN map_to_validate_func(last.name) ELSE map_to_validate_prop(last.name)
    IN  call_rule(rule, last.args[1], RuleArgs)

WrappedName == IF last.wrapper = "validate" THEN last.name ELSE "_get_attribute"

\* C2: with validation on, the resolved rule runs before the operation.  If the
\* rule raises, its exception leaves the wrapper and the operation is not run;
\* if it returns, the operation runs once, after the rule, with the wrapper's
\* arguments, and the wrapper returns the operation's result.
C2_RuleBeforeOperation ==
    (Called /\ GateOpen /\ Registered) =>
        IF RuleOutcome.exc # "none"
        THEN /\ last.steps = <<"lookup", "rule">>
             /\ last.exc = RuleOutcome.exc
             /\ last.msg = RuleOutcome.msg
             /\ last.func_args = <<>>
             /\ last.ret = None
        ELSE /\ last.steps = <<"lookup", "rule", "func">>
             /\ last.exc = "none"
             /\ last.func_args = last.args
             /\ last.ret = func(WrappedName, last.args)

\* C2 witness: validation on, the Base URI rule raised on a Document without
\* baseUri, and the operation did not run.
C2_Witness ==
    /\ GateOpen
    /\ last.name = "_set_base_uri"
    /\ last.exc = "InvalidRamlFileError"
    /\ last.steps = <<"lookup", "rule">>

RootLevelRules == {"__base_uri", "__version", "__api_title", "__documentation", "__base_uri_params", "__schemas", "__protocols", "__media_type", "__security_schemes", "__uri_params"}

\* C3: a root-level rule called on a Document returns or raises
\* InvalidRamlFileError, nothing else.
C3_OneErrorKind ==
    (last.wrapper = "validate" /\ last.rule \in RootLevelRules) => last.exc \in {"none", "InvalidRamlFileError"}

\* "application/", later "json" or "xml", anything in between.
MatchesPattern(s) ==
    \E i \in Idx(s) : \E j \in Idx(s) :
        /\ OccursAt(s_application_slash, s, i)
        /\ j >= i + Len(s_application_slash)
        /\ OccursAt(s_json, s, j) \/ OccursAt(s_xml, s, j)

\* C4: the root-level Media Type rule, on a media type outside the exact-match
\* set, passes exactly if the value matches application/<anything>(json|xml).
C4_PatternDecides ==
    LET m == Get(raml, "mediaType")
    IN  (last.wrapper = "validate" /\ last.rule = "__media_type" /\ Truthy(m) /\ ~InSeq(m.v, config_media_types)) =>
            /\ last.exc = "none" <=> MatchesPattern(m.v)
            /\ last.exc \in {"none", "InvalidRamlFileError"}

\* The type reference the last call of a type rule looked at.
TypeRef == IF last.rule = "__set_type" THEN Get(resource.data, "type") ELSE resource.type

TypeRefName ==
    CASE TypeRef.t = "dict" -> TypeRef.v[1][1]
      [] TypeRef.t = "list" -> TypeRef.v[1].v
      [] OTHER -> TypeRef.v

DeclaredTypes == {root.resource_types[i].name : i \in Idx(root.resource_types)}

TypeRuleCalled == last.wrapper = "validate" /\ last.rule \in {"__set_type", "__resource_type"}

\* The other type rule, called on the same objects.
OtherTypeRule == call_rule(IF last.rule = "__set_type" THEN "__resource_type" ELSE "__set_type", resource, <<root>>)

\* C5: a non-empty reference that is a bare name, a one-entry mapping or a
\* one-entry sequence passes exactly if its name is a declared resource type
\* and otherwise raises "is not defined in resourceTypes"; a mapping or
\* sequence of two or more entries raises "Too many resource types applied";
\* __set_type and __resource_type agree when data['type'] equals the type
\* attribute.
C5_TypeReference ==
    TypeRuleCalled =>
        /\ (Truthy(TypeRef) /\ (TypeRef.t = "str" \/ Len(TypeRef.v) = 1)) =>
               IF TypeRefName \in DeclaredTypes
               THEN last.exc = "none"
               ELSE last.exc = "InvalidRamlFileError" /\ last.msg = [text |-> "'{0}' is not defined in resourceTypes", with |-> Str(TypeRefName)]
        /\ (TypeRef.t \in {"dict", "list"} /\ Len(TypeRef.v) >= 2) =>
               last.exc = "InvalidRamlFileError" /\ last.msg.text = "Too many resource types applied to '{0}'."
        /\ Get(resource.data, "type") = resource.type =>
               last.exc = OtherTypeRule.exc /\ last.msg = OtherTypeRule.msg

\* C5 witness: type: {Collection: {}} was assigned, the Root declares
\* Collection, and Type Assignment passed.
C5_Witness ==
    /\ last.rule = "__set_type"
    /\ Get(resource.data, "type") = Dict(<< <<Chars["Collection"], EmptyDict>> >>)
    /\ Chars["Collection"] \in DeclaredTypes
    /\ last.exc = "none"
    /\ last.steps = <<"lookup", "rule", "func">>

RequiredSettings ==
    IF scheme.type = s_OAuth_2_0 THEN <<"authorizationUri", "accessTokenUri", "authorizationGrants", "scopes">>
    ELSE IF scheme.type = s_OAuth_1_0 THEN <<"requestTokenUri", "authorizationUri", "tokenCredentialsUri">>
    ELSE <<>>

MissingSettings ==
    LET settings == IF Truthy(Get(scheme.data, "settings")) THEN Get(scheme.data, "settings") ELSE EmptyDict
    IN  {i \in Idx(RequiredSettings) : \A j \in Idx(settings.v) : settings.v[j][1] # RequiredSettings[i]}

\* C6: no or empty settings pass; "OAuth 2.0" and "OAuth 1.0" pass exactly if
\* the settings hold every required key, and the error names the first missing
\* key in the listed order; any other type passes.
C6_SecuritySettings ==
    (last.wrapper = "validate" /\ last.rule = "__security_settings") =>
        IF ~Truthy(Get(scheme.data, "settings")) \/ MissingSettings = {}
        THEN last.exc = "none"
        ELSE /\ last.exc = "InvalidRamlFileError"
             /\ last.msg.with = Str(RequiredSettings[Min(MissingSettings)])

\* C6 witness: an OAuth 2.0 scheme with authorizationUri but neither
\* accessTokenUri nor scopes was refused for accessTokenUri.
C6_Witness ==
    /\ last.rule = "__security_settings"
    /\ scheme.type = s_OAuth_2_0
    /\ MissingSettings = {2, 4}
    /\ last.exc = "InvalidRamlFileError"
    /\ last.msg.with = Str("accessTokenUri")

\* The last call, made again in the current state.
Replay ==
    IF last.wrapper = "validate"
    THEN CallRecord("validate", last.name, <<FirstArg(last.name)>> \o ExtraArgs(last.name), validate_func_wrapper(last.name, FirstArg(last.name), ExtraArgs(last.name)))
    ELSE CallRecord("validate_property", last.name, <<resource, last.name, root>>, validate_property_func_wrapper("_get_attribute", resource, last.name, <<root>>))

Repeatable == Called => Replay = last

\* C7: no call changes the Document, the file, the Root, the resource-like
\* object (its data included) or the scheme, whether the rule returns or
\* raises; so after any sequence of calls the last one, made again, has the
\* same outcome.
C7_InputsUnchanged == [][UNCHANGED <<raml, raml_file, resources, root, resource, scheme>>]_vars /\ []Repeatable

\* C7 witness: the Query Parameters rule merged the method's and the
\* resource's parameters of the default Resource and returned.
C7_Witness ==
    /\ last.rule = "__query_params"
    /\ resource = DefaultView
    /\ last.steps = <<"lookup", "rule", "func">>

\* The scope data holds under orig_method, and whether it can be read.
OrigScope == GetOr(resource.data, resource.orig_method, EmptyDict)

\* The outcome of validating responses resp.
ResponsesOutcome(resp) == responses(View("neither", Dict(<< <<"responses", resp>> >>), None))

\* C8: the Responses rule validates data[orig_method]['responses'] whenever
\* the object has orig_method, also if it has method and data[method] is
\* present.
C8_OrigMethodFirst ==
    (last.rule = "__responses" /\ hasattr(resource, "orig_method") /\ OrigScope.t = "dict") =>
        /\ last.exc = ResponsesOutcome(GetOr(OrigScope, "responses", EmptyDict)).exc
        /\ last.msg = ResponsesOutcome(GetOr(OrigScope, "responses", EmptyDict)).msg

\* C9: on an object with orig_method and without method, the Body rule
\* validates data[orig_method]['body'].
C9_BodyOfOrigMethod ==
    (last.rule = "__body" /\ hasattr(resource, "orig_method") /\ ~hasattr(resource, "method") /\ OrigScope.t = "dict") =>
        /\ last.exc = body_media_type(GetOr(OrigScope, "body", EmptyDict), resource).exc
        /\ last.msg = body_media_type(GetOr(OrigScope, "body", EmptyDict), resource).msg

ParamRuleCalled == last.wrapper = "validate_property" /\ last.name \in ParamProperties

\* data[orig_method], where the object has orig_method, is a mapping or absent.
ScopeReadable == hasattr(resource, "orig_method") => OrigScope.t = "dict"

\* The method-scoped parameters: under orig_method if the object has it, else
\* under method if the object has it and data[method] is not None, else none.
MethodScoped ==
    IF hasattr(resource, "orig_method") THEN GetOr(OrigScope, last.name, EmptyDict).v
    ELSE IF hasattr(resource, "method") /\ Get(resource.data, resource.method) # None
    THEN GetOr(Get(resource.data, resource.method), last.name, EmptyDict).v
    ELSE <<>>

ResourceScoped == GetOr(resource.data, last.name, EmptyDict).v

\* Method-scoped entries first, each with the resource-scoped value if the
\* resource declares the same name; then the resource-scoped entries under
\* other names.
Merged ==
    LET InMethod(kv) == \E i \in Idx(MethodScoped) : MethodScoped[i][1] = kv[1]
        NotInMethod(kv) == ~InMethod(kv)
        Over(kv) == {j \in Idx(ResourceScoped) : ResourceScoped[j][1] = kv[1]}
    IN  [i \in Idx(MethodScoped) |-> IF Over(MethodScoped[i]) = {} THEN MethodScoped[i] ELSE ResourceScoped[Min(Over(MethodScoped[i]))]]
        \o SelectSeq(ResourceScoped, NotInMethod)

\* The entry declares a type that is no valid primitive type.
InvalidType(kv) ==
    LET ty == Get(kv[2], "type")
    IN  ty # None /\ \A i \in Idx(config_prim_types) : config_prim_types[i] # ty.v

====
